---------------------------- MODULE Spec2Model ----------------------------
(***************************************************************************)
(* Ships CLI (titanic.py): the command loop of main(), the validation of   *)
(* one input line by get_valid_action(), the dispatch table, the           *)
(* aggregation analyze_traffic_data_by() with its ranking, the handlers    *)
(* top_n_countries / get_all_ship_types and the fuzzy search handler.      *)
(*                                                                         *)
(* A text is a sequence of atoms.  An atom is either one character or one  *)
(* of the seven command names written out in full; no command name is a    *)
(* prefix of another atom or a concatenation of other atoms, so two texts  *)
(* are equal as Python strings exactly when their atom sequences are equal *)
(* and a text starts with "top_countries" exactly when its first atom is   *)
(* that name.                                                              *)
(***************************************************************************)
EXTENDS Integers, Sequences, FiniteSets

VARIABLES pc, buf, line, action, param, printed, invoked, num, exc,
          traffic_data, result, out,
          ratio, search_out

dispVars == <<pc, buf, line, action, param, printed, invoked, num, exc>>
aggVars == <<traffic_data, result, out>>
searchVars == <<ratio, search_out>>
vars == <<dispVars, aggVars, searchVars>>

\* ------------------------------------------------------------------ bounds
\* Longest line, in atoms, the user types before pressing Enter.
MaxLen == 4

\* ------------------------------------------------------------ characters
SP == " "
TAB == "\t"
\* U+0663 ARABIC-INDIC DIGIT THREE: str.isnumeric() is True, int() gives 3.
AR3 == "U+0663"
\* U+00B2 SUPERSCRIPT TWO: str.isnumeric() is True, int() raises ValueError.
SUP2 == "U+00B2"

Whitespace == {SP, TAB}
AsciiDigits == {"0", "3"}
Chars == Whitespace \cup AsciiDigits \cup {AR3, SUP2, "a"}

\* Optional values: Python's None, or a value.
None == <<>>
Some(x) == <<x>>

\* The keys of DISPATCH_DICT, in insertion order.
DISPATCH_KEYS ==
  <<"help", "show_countries", "top_countries", "ships_by_types",
    "search_ship", "speed_histogram", "draw_map">>

Range(s) == {s[i] : i \in 1..Len(s)}

Atoms == Range(DISPATCH_KEYS) \cup Chars

\* The function a key of DISPATCH_DICT is bound to.
Handler(key) ==
  CASE key = "help" -> "print_functions"
    [] key = "show_countries" -> "get_all_countries"
    [] key = "top_countries" -> "top_n_countries"
    [] key = "ships_by_types" -> "get_all_ship_types"
    [] key = "search_ship" -> "search_ship_by_name"
    [] key = "speed_histogram" -> "save_speed_histogram"
    [] key = "draw_map" -> "draw_plot_map"

\* ------------------------------------------------------- string functions
\* str.strip(): drop the whitespace at both ends.
RECURSIVE lstrip(_)
lstrip(s) ==
  IF s # <<>> /\ Head(s) \in Whitespace THEN lstrip(Tail(s)) ELSE s

RECURSIVE rstrip(_)
rstrip(s) ==
  IF s # <<>> /\ s[Len(s)] \in Whitespace
    THEN rstrip(SubSeq(s, 1, Len(s) - 1))
    ELSE s

\* A strip() that drops only the spaces at both ends.
RECURSIVE lstrip_spaces(_)
lstrip_spaces(s) ==
  IF s # <<>> /\ Head(s) = SP THEN lstrip_spaces(Tail(s)) ELSE s

RECURSIVE rstrip_spaces(_)
rstrip_spaces(s) ==
  IF s # <<>> /\ s[Len(s)] = SP
    THEN rstrip_spaces(SubSeq(s, 1, Len(s) - 1))
    ELSE s

strip_spaces_only(s) == rstrip_spaces(lstrip_spaces(s))

strip(s) == rstrip(lstrip(s))

\* " " in action
contains_space(s) == \E i \in 1..Len(s) : s[i] = SP

\* action.startswith("top_countries")
startswith_top_countries(s) == s # <<>> /\ s[1] = "top_countries"

\* Index of the first whitespace atom of s, or Len(s) + 1.
RECURSIVE first_ws(_, _)
first_ws(s, i) ==
  IF i > Len(s) \/ s[i] \in Whitespace THEN i ELSE first_ws(s, i + 1)

\* action.split(maxsplit=1) on a stripped text: the first token, and what
\* follows the whitespace run after it (absent when there is no whitespace).
split_maxsplit_1(s) ==
  LET i == first_ws(s, 1)
      rest == lstrip(SubSeq(s, i, Len(s)))
  IN IF rest = <<>> THEN <<SubSeq(s, 1, i - 1)>>
                    ELSE <<SubSeq(s, 1, i - 1), rest>>

\* One character is numeric (unicode Numeric_Type of Digit, Decimal, Numeric).
numeric_char(c) == c \in AsciiDigits \cup {AR3, SUP2}

\* str.isnumeric(): at least one character and all of them numeric.
isnumeric(s) == s # <<>> /\ \A i \in 1..Len(s) : numeric_char(s[i])

\* int() accepts the decimal digits of any script (category Nd) only.
decimal_char(c) == c \in AsciiDigits \cup {AR3}

digit_value(c) == CASE c = "0" -> 0 [] c = "3" -> 3 [] c = AR3 -> 3

int_raises(s) == s = <<>> \/ \E i \in 1..Len(s) : ~decimal_char(s[i])

RECURSIVE int(_)
int(s) ==
  IF s = <<>> THEN 0
  ELSE 10 * int(SubSeq(s, 1, Len(s) - 1)) + digit_value(s[Len(s)])

\* action in dispatcher
in_dispatcher(s) == Len(s) = 1 /\ s[1] \in Range(DISPATCH_KEYS)

\* --------------------------------------------------------- get_valid_action
\* What get_valid_action does with the raw line input() returned: whether it
\* returns (ok) or raises ValueError, what it prints, and the pair returned.
get_valid_action(raw) ==
  LET a == strip(raw) IN
  IF a = <<>>
    THEN [ok |-> FALSE, printed |-> <<>>, action |-> None, param |-> None]
  ELSE IF contains_space(a) /\ startswith_top_countries(a)
    THEN LET parts == split_maxsplit_1(a) IN
         IF ~isnumeric(parts[2])
           THEN [ok |-> FALSE,
                 printed |-> << <<"Unknown parameter", parts[2]>> >>,
                 action |-> None, param |-> None]
           ELSE [ok |-> TRUE, printed |-> <<>>,
                 action |-> Some(parts[1]), param |-> Some(parts[2])]
  ELSE IF ~in_dispatcher(a) \/ a = <<"top_countries">>
    THEN [ok |-> FALSE, printed |-> << <<"Unknown command", a>> >>,
          action |-> None, param |-> None]
  ELSE [ok |-> TRUE, printed |-> <<>>, action |-> Some(a), param |-> None]

\* ------------------------------------------------------------ command loop
\* pc = "AwaitingInput": main() is blocked in input() (line 155);
\* pc = "Dispatching": get_valid_action returned, line 185 is next;
\* pc = "Crashed": an exception left the while loop and ended the process.
\* line, action, param, printed, invoked, num, exc record the iteration that
\* consumed the last line; they are cleared when the next line is begun.
NoRecord ==
  /\ line = None /\ action = None /\ param = None /\ printed = <<>>
  /\ invoked = "none" /\ num = None /\ exc = "none"

DispInit ==
  /\ pc = "AwaitingInput"
  /\ buf = <<>>
  /\ NoRecord

\* The user types one more atom of the pending line.
TypeChar(c) ==
  /\ pc = "AwaitingInput"
  /\ Len(buf) < MaxLen
  /\ buf' = Append(buf, c)
  /\ line' = None /\ action' = None /\ param' = None /\ printed' = <<>>
  /\ invoked' = "none" /\ num' = None /\ exc' = "none"
  /\ pc' = pc
  /\ UNCHANGED <<aggVars, searchVars>>

\* Enter: input() returns the pending line and get_valid_action runs to its
\* return or its raise; main's except ValueError: continue resumes the loop.
GetValidAction ==
  /\ pc = "AwaitingInput"
  /\ LET r == get_valid_action(buf) IN
       /\ line' = Some(buf)
       /\ buf' = <<>>
       /\ printed' = r.printed
       /\ action' = r.action
       /\ param' = r.param
       /\ pc' = IF r.ok THEN "Dispatching" ELSE "AwaitingInput"
  /\ invoked' = "none" /\ num' = None /\ exc' = "none"
  /\ UNCHANGED <<aggVars, searchVars>>

\* DISPATCH_DICT[action](all_data, param), outside the try block: the lookup
\* (KeyError for a name that is no key), the lambda's int(num) (ValueError)
\* and the call of the handler, recorded by its name and its count.  What
\* top_n_countries, get_all_ship_types and search_ship_by_name compute is
\* modelled by the operators of those names below.
Dispatch ==
  /\ pc = "Dispatching"
  /\ LET key == action[1] IN
       IF ~in_dispatcher(key)
         THEN /\ exc' = "KeyError"
              /\ pc' = "Crashed"
              /\ UNCHANGED <<invoked, num>>
       ELSE IF key[1] = "top_countries"
         THEN IF int_raises(param[1])
                THEN /\ exc' = "ValueError"
                     /\ pc' = "Crashed"
                     /\ UNCHANGED <<invoked, num>>
                ELSE /\ invoked' = Handler(key[1])
                     /\ num' = Some(int(param[1]))
                     /\ pc' = "AwaitingInput"
                     /\ exc' = exc
       ELSE /\ invoked' = Handler(key[1])
            /\ pc' = "AwaitingInput"
            /\ UNCHANGED <<num, exc>>
  /\ UNCHANGED <<buf, line, action, param, printed, aggVars, searchVars>>

\* -------------------------------------------------------------- aggregation
COUNTRY_KEY == "COUNTRY"
TYPE_KEY == "TYPE_SUMMARY"
SHIP_NAME_KEY == "SHIPNAME"

\* A Python dict is the sequence of its <<key, value>> items in insertion
\* order, keys distinct.
has_key(d, k) == \E i \in 1..Len(d) : d[i][1] = k

\* analyzed_dict[k] = set()
dict_set_empty(d, k) ==
  IF has_key(d, k)
    THEN [i \in 1..Len(d) |-> IF d[i][1] = k THEN <<k, {}>> ELSE d[i]]
    ELSE Append(d, <<k, {}>>)

\* An add that replaces the set instead of growing it.
dict_add_overwrite(d, k, name) ==
  [i \in 1..Len(d) |-> IF d[i][1] = k THEN <<k, {name}>> ELSE d[i]]

\* analyzed_dict[k].add(name)
dict_add(d, k, name) ==
  [i \in 1..Len(d) |-> IF d[i][1] = k THEN <<k, d[i][2] \cup {name}>> ELSE d[i]]

\* The for loop of analyze_traffic_data_by over the records not yet visited.
RECURSIVE group_by(_, _, _)
group_by(data, key, d) ==
  IF data = <<>> THEN d
  ELSE LET ship == Head(data)
           d1 == IF ~has_key(d, ship[key]) THEN dict_set_empty(d, ship[key])
                                           ELSE d
       IN group_by(Tail(data), key, dict_add(d1, ship[key], ship[SHIP_NAME_KEY]))

reversed(s) == [i \in 1..Len(s) |-> s[Len(s) + 1 - i]]

\* One step of the stable insertion sort list.sort runs on short lists: x is
\* put after every element whose key is not greater than its own.
RECURSIVE insert_by_key(_, _, _)
insert_by_key(sorted_part, x, keys) ==
  IF sorted_part = <<>> THEN <<x>>
  ELSE IF keys[sorted_part[Len(sorted_part)]] <= keys[x]
    THEN Append(sorted_part, x)
    ELSE Append(insert_by_key(SubSeq(sorted_part, 1, Len(sorted_part) - 1),
                              x, keys),
                sorted_part[Len(sorted_part)])

\* Stable ascending sort of the positions idx by keys.
RECURSIVE sort_ascending(_, _)
sort_ascending(idx, keys) ==
  IF idx = <<>> THEN <<>>
  ELSE insert_by_key(sort_ascending(SubSeq(idx, 1, Len(idx) - 1), keys),
                     idx[Len(idx)], keys)

\* A descending sort written as sorted(items, key=...)[::-1]: equal keys come
\* out in reverse order.
sorted_then_reversed(items, keys) ==
  LET idx == [i \in 1..Len(items) |-> i]
      order == reversed(sort_ascending(idx, keys))
  IN [i \in 1..Len(items) |-> items[order[i]]]

\* sorted(items, key=..., reverse=True): list.sort reverses the list, sorts it
\* ascending and stable, and reverses the result.  keys[i] is the key of
\* items[i].
sorted_reverse(items, keys) ==
  LET idx == [i \in 1..Len(items) |-> i]
      order == reversed(sort_ascending(reversed(idx), keys))
  IN [i \in 1..Len(items) |-> items[order[i]]]

sorted_by_len_reverse(items) ==
  sorted_reverse(items, [i \in 1..Len(items) |-> Cardinality(items[i][2])])

analyze_traffic_data_by(data, key, is_sorted) ==
  LET analyzed_dict == group_by(data, key, <<>>) IN
  IF is_sorted THEN sorted_by_len_reverse(analyzed_dict) ELSE analyzed_dict

\* A slice that stops one entry early.
slice_to_exclusive(s, n) ==
  SubSeq(s, 1, IF n - 1 < Len(s) THEN n - 1 ELSE Len(s))

\* s[:n]
slice_to(s, n) ==
  IF n >= 0 THEN SubSeq(s, 1, IF n < Len(s) THEN n ELSE Len(s))
            ELSE SubSeq(s, 1, IF Len(s) + n > 0 THEN Len(s) + n ELSE 0)

\* print_iterable(iterable, value=True): the lines "key: len(val)".
print_iterable_value(iterable) ==
  [i \in 1..Len(iterable) |-> <<iterable[i][1], Cardinality(iterable[i][2])>>]

top_n_countries(data, n) ==
  LET countries_data == analyze_traffic_data_by(data, COUNTRY_KEY, TRUE)
  IN print_iterable_value(slice_to(countries_data, n))

get_all_ship_types(data) ==
  LET type_data == analyze_traffic_data_by(data, TYPE_KEY, TRUE)
  IN print_iterable_value(type_data)

\* The records load_data() may return: every country with every ship name,
\* the empty country included; a record's type is fixed by the table.
Countries == {"", "UK", "US"}
ShipNames == {"A", "B"}
TypeOf(c, n) ==
  IF <<c, n>> \in {<<"US", "A">>, <<"UK", "A">>, <<"UK", "B">>}
    THEN "Cargo" ELSE "Tanker"
Records ==
  {[COUNTRY |-> c, TYPE_SUMMARY |-> TypeOf(c, n), SHIPNAME |-> n] :
     c \in Countries, n \in ShipNames}

\* Most records in the dataset, and the largest count given to top_countries.
MaxShips == 4
MaxNum == 3

Datasets == UNION {[1..n -> Records] : n \in 0..MaxShips}

AggInit ==
  /\ traffic_data \in Datasets
  /\ result = None
  /\ out = None

\* A handler calls analyze_traffic_data_by(traffic_data, by_key=k, is_sorted=b).
AnalyzeTrafficDataBy(k, b) ==
  /\ result' = Some([by_key |-> k, is_sorted |-> b,
                     value |-> analyze_traffic_data_by(traffic_data, k, b)])
  /\ out' = None
  /\ UNCHANGED <<traffic_data, dispVars, searchVars>>

\* top_countries <n>
TopNCountries(n) ==
  /\ out' = Some([handler |-> "top_n_countries", num |-> n,
                  lines |-> top_n_countries(traffic_data, n)])
  /\ result' = None
  /\ UNCHANGED <<traffic_data, dispVars, searchVars>>

\* ships_by_types
GetAllShipTypes ==
  /\ out' = Some([handler |-> "get_all_ship_types", num |-> 0,
                  lines |-> get_all_ship_types(traffic_data)])
  /\ result' = None
  /\ UNCHANGED <<traffic_data, dispVars, searchVars>>

\* ------------------------------------------------------------ fuzzy search
SEARCH_ACCURACY == 85

\* process.extract(query, choices) is called without limit=, so thefuzz keeps
\* its default, limit=5.
EXTRACT_LIMIT == 5

\* Most distinct ship names in the dataset.
MaxNames == 6

\* The ratios thefuzz's scorer may give a ship name for the query entered.
Ratios == {60, 85, 86, 100}

\* process.extract(search_key, ships_names): the (name, ratio) pairs of
\* heapq.nlargest(limit, scored, key=ratio), which is
\* sorted(scored, key=ratio, reverse=True)[:limit].  scored[i] is the ratio
\* of the i-th ship name the set ships_names yields; i stands for that name.
extract(scored) ==
  LET pairs == [i \in 1..Len(scored) |-> <<i, scored[i]>>]
  IN slice_to(sorted_reverse(pairs, scored), EXTRACT_LIMIT)

\* The list comprehension of search_ship_by_name and what it then prints.
search_ship_by_name(scored) ==
  LET best == extract(scored)
      kept == SelectSeq(best, LAMBDA p : p[2] > SEARCH_ACCURACY)
      search_results == [i \in 1..Len(kept) |-> kept[i][1]]
  IN [results |-> search_results,
      printed |-> IF search_results # <<>>
                    THEN <<"Did you mean any of these?">> \o search_results
                    ELSE <<"No results found">>]

SearchInit ==
  /\ ratio \in UNION {[1..n -> Ratios] : n \in 0..MaxNames}
  /\ search_out = None

\* search_ship: the user enters the query and the handler runs to its end.
SearchShipByName ==
  /\ search_out' = Some(search_ship_by_name(ratio))
  /\ UNCHANGED <<ratio, dispVars, aggVars>>

\* ------------------------------------------------------------------ claims
\* What the claims speak of, stated from the input alone.
MinOf(S) == CHOOSE x \in S : \A y \in S : x <= y
MaxOf(S) == CHOOSE x \in S : \A y \in S : x >= y

IsBlank(s) == \A i \in 1..Len(s) : s[i] \in Whitespace

\* The line without the whitespace at its ends.
Trimmed(s) ==
  LET solid == {i \in 1..Len(s) : s[i] \notin Whitespace}
  IN IF solid = {} THEN <<>> ELSE SubSeq(s, MinOf(solid), MaxOf(solid))

ArgLessCommands == Range(DISPATCH_KEYS) \ {"top_countries"}

IsArgLessCommand(t) == Len(t) = 1 /\ t[1] \in ArgLessCommands

\* 'top_countries', whitespace, more text (t is trimmed).
TopCountriesWithArg(t) ==
  Len(t) >= 3 /\ t[1] = "top_countries" /\ t[2] \in Whitespace

\* What follows the whitespace after 'top_countries'.
Remainder(t) ==
  SubSeq(t, MinOf({i \in 2..Len(t) : t[i] \notin Whitespace}), Len(t))

OnlyAsciiDigits(r) == r # <<>> /\ \A i \in 1..Len(r) : r[i] \in AsciiDigits

RECURSIVE DecimalValue(_)
DecimalValue(r) ==
  IF r = <<>> THEN 0
  ELSE 10 * DecimalValue(SubSeq(r, 1, Len(r) - 1))
       + (IF r[Len(r)] = "3" THEN 3 ELSE 0)

\* C1: whatever line is entered, no exception leaves the while loop of main.
C1_NoExceptionEscapes == pc # "Crashed"

\* C2: a non-empty trimmed line that is neither an argument-less command nor
\* 'top_countries' + whitespace + text gets the "Unknown command" diagnostic
\* naming it, validation fails and no handler runs.
C2_UnknownCommand ==
  line # None =>
    LET t == Trimmed(line[1]) IN
    (t # <<>> /\ ~IsArgLessCommand(t) /\ ~TopCountriesWithArg(t)) =>
      /\ pc = "AwaitingInput"
      /\ printed = << <<"Unknown command", t>> >>
      /\ action = None
      /\ invoked = "none"

\* C3: 'top_countries' + whitespace + a remainder that is not all digits 0-9
\* gets the "Unknown parameter" diagnostic naming the remainder, validation
\* fails and no handler runs.
C3_UnknownParameter ==
  line # None =>
    LET t == Trimmed(line[1]) IN
    (TopCountriesWithArg(t) /\ ~OnlyAsciiDigits(Remainder(t))) =>
      /\ pc = "AwaitingInput"
      /\ printed = << <<"Unknown parameter", Remainder(t)>> >>
      /\ action = None
      /\ invoked = "none"

\* C4: 'top_countries' + whitespace of any kind + digits succeeds with
\* ('top_countries', digits) and top_n_countries then runs with their value;
\* every other registered command succeeds with (name, None).
C4_ValidLineDispatched ==
  line # None =>
    LET t == Trimmed(line[1]) IN
    /\ (TopCountriesWithArg(t) /\ OnlyAsciiDigits(Remainder(t))) =>
         /\ pc # "Crashed"
         /\ action = Some(<<"top_countries">>)
         /\ param = Some(Remainder(t))
         /\ pc = "AwaitingInput" =>
              /\ invoked = "top_n_countries"
              /\ num = Some(DecimalValue(Remainder(t)))
    /\ IsArgLessCommand(t) =>
         /\ pc # "Crashed"
         /\ action = Some(t)
         /\ param = None
         /\ pc = "AwaitingInput" => invoked = Handler(t[1])

\* C5: top_n_countries is only ever run with a positive count.
C5_PositiveCount ==
  invoked = "top_n_countries" => (num # None /\ num[1] >= 1)

\* C10: an empty or all-whitespace line fails validation with nothing
\* printed, runs no handler and leaves the loop awaiting the next line.
C10_BlankLineSilent ==
  (line # None /\ IsBlank(line[1])) =>
    /\ pc = "AwaitingInput"
    /\ printed = <<>>
    /\ action = None
    /\ invoked = "none"
    /\ exc = "none"

\* A line of a tab and a space was entered.
C10_Witness ==
  /\ line = Some(<<TAB, SP>>)
  /\ pc = "AwaitingInput"
  /\ buf = <<>>

\* The grouping of the dataset, stated from the records alone.
KeysOf(data, k) == {data[i][k] : i \in 1..Len(data)}

GroupOf(data, k, v) ==
  {data[i][SHIP_NAME_KEY] : i \in {j \in 1..Len(data) : data[j][k] = v}}

FirstSeen(data, k, v) == MinOf({i \in 1..Len(data) : data[i][k] = v})

\* Key v ranks before key w: a larger group, or an equal one met earlier.
RanksBefore(data, k, v, w) ==
  LET cv == Cardinality(GroupOf(data, k, v))
      cw == Cardinality(GroupOf(data, k, w))
  IN cv > cw \/ (cv = cw /\ FirstSeen(data, k, v) < FirstSeen(data, k, w))

\* C6: with is_sorted=True the (key, group) pairs come in non-increasing
\* group size, equal sizes in the order the keys were first met.
C6_RankStableDescending ==
  (result # None /\ result[1].is_sorted) =>
    LET r == result[1].value
        k == result[1].by_key
    IN /\ Len(r) = Cardinality(KeysOf(traffic_data, k))
       /\ \A i \in 1..Len(r) :
            /\ r[i][1] \in KeysOf(traffic_data, k)
            /\ r[i][2] = GroupOf(traffic_data, k, r[i][1])
       /\ \A i, j \in 1..Len(r) :
            i < j => RanksBefore(traffic_data, k, r[i][1], r[j][1])

\* A ranking that moved the last key met to the front, before two keys of
\* equal group size.
C6_Witness ==
  /\ result # None
  /\ result[1].is_sorted
  /\ Len(result[1].value) = 3
  /\ Cardinality(result[1].value[1][2]) = 2
  /\ Cardinality(result[1].value[2][2]) = 1
  /\ Cardinality(result[1].value[3][2]) = 1
  /\ FirstSeen(traffic_data, result[1].by_key, result[1].value[1][1]) >
       FirstSeen(traffic_data, result[1].by_key, result[1].value[3][1])

\* C7: the grouping has exactly the field values of the dataset as keys, each
\* once, and for each the set of the ship names recorded under it; the groups
\* together hold exactly the ship names of the dataset.
C7_GroupingExact ==
  (result # None /\ ~result[1].is_sorted) =>
    LET r == result[1].value
        k == result[1].by_key
    IN /\ {r[i][1] : i \in 1..Len(r)} = KeysOf(traffic_data, k)
       /\ Len(r) = Cardinality(KeysOf(traffic_data, k))
       /\ \A i \in 1..Len(r) : r[i][2] = GroupOf(traffic_data, k, r[i][1])
       /\ UNION {r[i][2] : i \in 1..Len(r)} =
            KeysOf(traffic_data, SHIP_NAME_KEY)

\* The empty country groups two ships, one of them recorded twice.
C7_Witness ==
  /\ result # None
  /\ ~result[1].is_sorted
  /\ result[1].by_key = COUNTRY_KEY
  /\ Len(traffic_data) = 4
  /\ \E i \in 1..Len(result[1].value) :
       /\ result[1].value[i][1] = ""
       /\ Cardinality(result[1].value[i][2]) = 2
       /\ Cardinality({j \in 1..4 : traffic_data[j][COUNTRY_KEY] = ""}) = 3

\* C8: top_countries N, N >= 1, prints min(N, number of countries) lines
\* 'name: count', count the distinct ship names of the country: the first N
\* of the ranking by descending count, equal counts in first-met order.
C8_TopCountriesLines ==
  (out # None /\ out[1].handler = "top_n_countries" /\ out[1].num >= 1) =>
    LET l == out[1].lines
        all == KeysOf(traffic_data, COUNTRY_KEY)
        shown == {l[i][1] : i \in 1..Len(l)}
    IN /\ Len(l) = (IF out[1].num < Cardinality(all) THEN out[1].num
                                                     ELSE Cardinality(all))
       /\ \A i \in 1..Len(l) :
            /\ l[i][1] \in all
            /\ l[i][2] = Cardinality(GroupOf(traffic_data, COUNTRY_KEY, l[i][1]))
       /\ \A i, j \in 1..Len(l) :
            i < j => RanksBefore(traffic_data, COUNTRY_KEY, l[i][1], l[j][1])
       /\ \A c \in all \ shown : \A i \in 1..Len(l) :
            RanksBefore(traffic_data, COUNTRY_KEY, l[i][1], c)

\* top_countries 2 over UK:1, '':1, US:2 met in that order prints US, UK.
C8_Witness ==
  /\ out # None
  /\ out[1].handler = "top_n_countries"
  /\ out[1].num = 2
  /\ out[1].lines = << <<"US", 2>>, <<"UK", 1>> >>
  /\ Len(traffic_data) = 4
  /\ traffic_data[1][COUNTRY_KEY] = "UK"
  /\ traffic_data[2][COUNTRY_KEY] = ""

\* C9: the search prints every ship name whose ratio is above 85 and no
\* other, by descending ratio, and "No results found" when there is none.
C9_AllAboveThreshold ==
  search_out # None =>
    LET res == search_out[1].results IN
    /\ {res[i] : i \in 1..Len(res)} =
         {n \in 1..Len(ratio) : ratio[n] > SEARCH_ACCURACY}
    /\ \A i, j \in 1..Len(res) : i < j =>
         (res[i] # res[j] /\ ratio[res[i]] >= ratio[res[j]])
    /\ search_out[1].printed =
         (IF res = <<>> THEN <<"No results found">>
                        ELSE <<"Did you mean any of these?">> \o res)

DispIdle ==
  /\ pc = "AwaitingInput" /\ buf = <<>> /\ NoRecord

AggIdle ==
  /\ traffic_data = <<>> /\ result = None /\ out = None

SearchIdle ==
  /\ ratio = <<>> /\ search_out = None

\* The command loop.
Init == DispInit /\ AggIdle /\ SearchIdle

Next ==
  \/ \E c \in Atoms : TypeChar(c)
  \/ GetValidAction
  \/ Dispatch

Spec == Init /\ [][Next]_vars

\* The aggregation and the handlers printing it, over every dataset.
InitAgg == AggInit /\ DispIdle /\ SearchIdle

NextAgg ==
  \/ \E k \in {COUNTRY_KEY, TYPE_KEY}, b \in BOOLEAN : AnalyzeTrafficDataBy(k, b)
  \/ \E n \in 0..MaxNum : TopNCountries(n)
  \/ GetAllShipTypes

SpecAgg == InitAgg /\ [][NextAgg]_vars

\* The search handler, over every scoring of the ship names.
InitSearch == SearchInit /\ DispIdle /\ AggIdle

NextSearch == SearchShipByName

SpecSearch == InitSearch /\ [][NextSearch]_vars

=============================================================================
